---- MODULE Spec2Model ----
(***************************************************************************)
(* The TR-069 side of OpenUSP: the ACS session engine (pkg/cwmp,           *)
(* AcsServer) and the controller's device registry (internal/controller,   *)
(* CwmpManager) with the device collection it writes to.                   *)
(*                                                                         *)
(* Strings that the code builds with fmt.Sprintf are sequences of tokens,  *)
(* so that two different tuples can format to the same id.  The handler's  *)
(* input is the request as encoding/xml decodes it (or fails to); time is  *)
(* the value time.Now() returns, in seconds.                               *)
(***************************************************************************)
EXTENDS Integers, Sequences, FiniteSets, TLC

\* ------------------------------------------------------------------ bounds
MaxTicks == 2
MaxSessionTicks == 1
MaxQueue == 2
MaxSkew == 1

\* --------------------------------------------------------------- constants
PeriodicInformInterval == 300
StatusOK == 200
StatusNoContent == 204
StatusBadRequest == 400
StatusInternalServerError == 500
FaultInternalError == 9002
FaultInvalidArguments == 9003
FaultResourcesExceeded == 9004

SessionStateNew == 0
SessionStateInform == 1
SessionStateActive == 2
SessionStateClosed == 3

\* ------------------------------------------------------------------ inputs
\* DeviceIdStruct values the devices of the model announce.
Device1 ==
  [Manufacturer |-> <<"A">>, OUI |-> <<"0">>, ProductClass |-> <<"R">>, SerialNumber |-> <<"1">>]
Device2 ==
  [Manufacturer |-> <<"A">>, OUI |-> <<"0">>, ProductClass |-> <<"R">>, SerialNumber |-> <<"2">>]
DeviceInfos == {Device1, Device2}

\* DeviceIdStruct values with a '-' or a ':' inside ProductClass or SerialNumber.
DashDevice1 ==
  [Manufacturer |-> <<"A">>, OUI |-> <<"0">>, ProductClass |-> <<"R", "-", "X">>,
   SerialNumber |-> <<"7">>]
DashDevice2 ==
  [Manufacturer |-> <<"A">>, OUI |-> <<"0">>, ProductClass |-> <<"R">>,
   SerialNumber |-> <<"X", "-", "7">>]
ColonDevice1 ==
  [Manufacturer |-> <<"A">>, OUI |-> <<"0">>, ProductClass |-> <<"R", ":", "X">>,
   SerialNumber |-> <<"8">>]
ColonDevice2 ==
  [Manufacturer |-> <<"A">>, OUI |-> <<"0">>, ProductClass |-> <<"R">>,
   SerialNumber |-> <<"X", ":", "8">>]
SeparatorDevices == {DashDevice1, DashDevice2, ColonDevice1, ColonDevice2}

\* Values of the cwmp:ID SOAP header; "" is an absent header.
CwmpIds == {"", "id1"}

\* The RPC values SendRPC is called with.
GetParameterValuesRpc == [method |-> "GetParameterValues"]
SetParameterValuesRpc == [method |-> "SetParameterValues"]
RebootRpc == [method |-> "Reboot"]
Rpcs == {GetParameterValuesRpc, SetParameterValuesRpc, RebootRpc}

Workers == {"w1", "w2"}

SwVersionName == "Device.DeviceInfo.SoftwareVersion"
InformIntervalName == "Device.ManagementServer.PeriodicInformInterval"

\* The HTTP requests: an unreadable body, an empty body, a body that is no
\* SOAP envelope, or an envelope whose body holds one method element.
\* dev: the device that sends it (the server sees it in a decoded Inform only);
\* ok: the method element decodes into the Go struct of its name;
\* param: the name of the parameter a GetParameterValuesResponse carries;
\* big: the body is longer than any envelope size an operator would configure.
NoDevice == [Manufacturer |-> <<>>, OUI |-> <<>>, ProductClass |-> <<>>, SerialNumber |-> <<>>]
NoReq ==
  [body |-> "none", dev |-> NoDevice, id |-> "", method |-> "none", ok |-> FALSE,
   param |-> "none", big |-> FALSE]
Req(body, dev, id, method, ok, param) ==
  [body |-> body, dev |-> dev, id |-> id, method |-> method, ok |-> ok, param |-> param,
   big |-> FALSE]
EmptyRequests == {Req("empty", d, "", "none", FALSE, "none") : d \in DeviceInfos}
BrokenRequests ==
  {Req(b, d, "", "none", FALSE, "none") : b \in {"readerr", "garbage"}, d \in {Device1}}
InformRequests ==
  {Req("soap", d, "id1", "Inform", ok, "none") : d \in DeviceInfos, ok \in BOOLEAN}
ResponseRequests ==
  {Req("soap", Device1, id, "GetParameterValuesResponse", TRUE, p) :
     id \in CwmpIds, p \in {SwVersionName, InformIntervalName}}
  \cup {Req("soap", Device1, "id1", "GetParameterValuesResponse", FALSE, SwVersionName)}
  \cup {Req("soap", Device1, "id1", "SetParameterValuesResponse", ok, "none") : ok \in BOOLEAN}
  \cup {Req("soap", Device1, "id1", "RebootResponse", TRUE, "none")}
\* Bodies io.ReadAll returns in full, whatever their length.
OversizeRequests ==
  {[Req("soap", Device2, "id1", "Inform", TRUE, "none") EXCEPT !.big = TRUE],
   [Req("soap", Device1, "id1", "SetParameterValuesResponse", TRUE, "none") EXCEPT !.big = TRUE]}
Requests ==
  EmptyRequests \cup BrokenRequests \cup InformRequests \cup ResponseRequests
    \cup OversizeRequests

\* ----------------------------------------------------------------- helpers
\* fmt.Sprintf("%s-%s-%s-%s", ...) of handleInform.
AcsDeviceId(info) ==
  info.Manufacturer \o <<"-">> \o info.OUI \o <<"-">> \o info.ProductClass
    \o <<"-">> \o info.SerialNumber

\* fmt.Sprintf("cwmp:%s:%s:%s:%s", ...) of RegisterCwmpDevice.
CmDeviceId(info) ==
  <<"cwmp">> \o <<":">> \o info.Manufacturer \o <<":">> \o info.OUI \o <<":">>
    \o info.ProductClass \o <<":">> \o info.SerialNumber

\* The device ids a caller can pass: both formats of every device.
CallerIds == {AcsDeviceId(i) : i \in DeviceInfos} \cup {CmDeviceId(i) : i \in DeviceInfos}

\* Every id the model forms: those, and the ids of the separator devices.
AllIds ==
  CallerIds \cup {AcsDeviceId(i) : i \in SeparatorDevices}
            \cup {CmDeviceId(i) : i \in SeparatorDevices}

\* m[k] = v, k added to the map when absent (Go: m[k] = v).
MapPut(m, k, v) == [x \in DOMAIN m \cup {k} |-> IF x = k THEN v ELSE m[x]]

EmptyMap == [x \in {} |-> 0]

\* ------------------------------------------------------------ SOAP envelopes
NoHeader == [present |-> FALSE, ID |-> "", NoMoreRequests |-> FALSE]
NoFault == 0
NoContent == [method |-> "none"]

\* The response envelope processSOAPRequest creates: Header: &SOAPHeader{}.
NewResponseEnvelope ==
  [Header |-> [present |-> TRUE, ID |-> "", NoMoreRequests |-> FALSE],
   Content |-> NoContent, Fault |-> NoFault]

\* The literal envelope of sendEmptyResponse: empty header and body.
EmptyEnvelope == [Header |-> NoHeader, Content |-> NoContent, Fault |-> NoFault]

\* The envelope of sendSOAPFault: no header, a Fault with the CWMP fault code.
FaultEnvelope(faultCode, faultString) ==
  [Header |-> NoHeader, Content |-> [method |-> "Fault"], Fault |-> faultCode]

\* What a handler passes to w.Write: a piece of text or a marshalled envelope.
Text(t) == [text |-> t, env |-> EmptyEnvelope]
Xml(e) == [text |-> "", env |-> e]
XmlHeader == Text("<?xml?>")

\* ------------------------------------------------- net/http response paramWriter
\* A fresh http.ResponseWriter: no status written, no body.
NewWriter == [status |-> 0, ctype |-> "", body |-> <<>>]

\* net/http: no body is sent with a 1xx, 204 or 304 status.
bodyAllowedForStatus(status) ==
  ~ (\/ (status >= 100 /\ status <= 199)
     \/ status = StatusNoContent
     \/ status = 304)

\* w.WriteHeader(code): the first call sets the status.
WriteHeader(w, code) == IF w.status = 0 THEN [w EXCEPT !.status = code] ELSE w

\* w.Write(data): an implicit 200 when no header was written; the data is
\* dropped (ErrBodyNotAllowed, which the handlers ignore) when the status
\* allows no body.
Write(w, data) ==
  LET h == WriteHeader(w, StatusOK)
  IN IF bodyAllowedForStatus(h.status) THEN [h EXCEPT !.body = Append(@, data)] ELSE h

\* http.Error(w, msg, code): the status and the message as plain text.
HttpError(w, msg, code) ==
  Write(WriteHeader([w EXCEPT !.ctype = "text/plain"], code), Text(msg))

VARIABLES
  now,        \* time.Now(), seconds
  sessions,   \* AcsServer.sessions: device id -> CwmpSession
  handler,    \* per HTTP handler goroutine: where it is in handleCwmpRequest
  resp,       \* the HTTP response this step wrote, with the request it answers
  devices,    \* CwmpManager.devices: device id -> CwmpDevice
  deviceStore,\* the cwmpdevices collection: _id -> document
  ret,        \* what the operator-facing method called in this step returned
  enqueued,   \* history: per session key, the RPCs SendRPC has queued
  sent,       \* history: per session key, the RPCs the responses carried
  inflight,   \* history: per session key, the RPCs sent and not yet answered
  paramStore, \* the cwmpparams collection: its documents, in insertion order
  paramWriter,\* per caller of a parameter write: where it is in its list
  rpcCaller,  \* per goroutine that calls SendRPC: where it is in the call
  apiHandler  \* the API handler getCwmpDevices: where it is, what it found

vars == <<now, sessions, handler, resp, devices, deviceStore, ret, enqueued, sent,
          inflight, paramStore, paramWriter, rpcCaller, apiHandler>>

Idle == [pc |-> "idle", req |-> NoReq, deviceId |-> <<>>]
NoResp == [status |-> 0, ctype |-> "", body |-> <<>>, req |-> NoReq]
NoRet == [op |-> "none", id |-> <<>>, arg |-> <<>>, err |-> "nil"]

\* The goroutines that call SendRPC concurrently, and one not in a call.
Callers == {"c1", "c2"}
NoCall == [pc |-> "idle", deviceId |-> <<>>, rpc |-> [method |-> "none"], queue |-> <<>>]

\* The API handler outside getCwmpDevices.
NoQuery == [pc |-> "idle", onlineOnly |-> FALSE, found |-> {}]

\* The goroutines that write parameters, and one that is not in a call.
Writers == {"u1", "u2"}
NoWrite ==
  [pc |-> "idle", op |-> "none", deviceId |-> <<>>, list |-> <<>>, i |-> 0,
   matched |-> FALSE, written |-> 0, locked |-> FALSE]

Init ==
  /\ now = 0
  /\ sessions = EmptyMap
  /\ handler = [w \in Workers |-> Idle]
  /\ resp = NoResp
  /\ devices = EmptyMap
  /\ deviceStore = EmptyMap
  /\ ret = NoRet
  /\ enqueued = [d \in AllIds |-> <<>>]
  /\ sent = [d \in AllIds |-> <<>>]
  /\ inflight = [d \in AllIds |-> 0]
  /\ paramStore = <<>>
  /\ paramWriter = [u \in Writers |-> NoWrite]
  /\ rpcCaller = [c \in Callers |-> NoCall]
  /\ apiHandler = NoQuery

\* ---------------------------------------------------------------- AcsServer
\* Mutant: a new session is created in state Inform.
getOrCreateSession_StartsInform(deviceId) ==
  IF deviceId \in DOMAIN sessions
  THEN sessions
  ELSE MapPut(sessions, deviceId,
              [DeviceId |-> deviceId, SessionId |-> now, CreatedTime |-> now,
               LastActivity |-> now, HoldRequests |-> FALSE, MaxEnvelopes |-> 1,
               State |-> SessionStateInform, PendingRPCs |-> <<>>])

\* Mutant: every call creates a fresh session, replacing the one stored.
getOrCreateSession_AlwaysNew(deviceId) ==
  MapPut(sessions, deviceId,
         [DeviceId |-> deviceId, SessionId |-> now, CreatedTime |-> now,
          LastActivity |-> now, HoldRequests |-> FALSE, MaxEnvelopes |-> 1,
          State |-> SessionStateNew, PendingRPCs |-> <<>>])

\* Mutant: a session that no Inform has completed on is created anew.
getOrCreateSession_ReplacesNew(deviceId) ==
  IF deviceId \in DOMAIN sessions /\ sessions[deviceId].State # SessionStateNew
  THEN sessions
  ELSE MapPut(sessions, deviceId,
              [DeviceId |-> deviceId, SessionId |-> now, CreatedTime |-> now,
               LastActivity |-> now, HoldRequests |-> FALSE, MaxEnvelopes |-> 1,
               State |-> SessionStateNew, PendingRPCs |-> <<>>])

\* getOrCreateSession: the session table after the call (under acs.mutex).
getOrCreateSession(deviceId) ==
  IF deviceId \in DOMAIN sessions
  THEN sessions
  ELSE MapPut(sessions, deviceId,
              [DeviceId |-> deviceId, SessionId |-> now, CreatedTime |-> now,
               LastActivity |-> now, HoldRequests |-> FALSE, MaxEnvelopes |-> 1,
               State |-> SessionStateNew, PendingRPCs |-> <<>>])

\* Mutant: the envelope is sent with status 200.
sendEmptyResponse_StatusOK(w) == Write(WriteHeader(w, StatusOK), Xml(EmptyEnvelope))

\* Mutant: every empty POST is answered with the RPC at the head of a queue,
\* which stays queued, whether or not an earlier RPC has been answered.
sendEmptyResponse_HandsQueued(w) ==
  LET waiting == {k \in DOMAIN sessions : sessions[k].PendingRPCs # <<>>}
  IN IF waiting = {}
     THEN Write(WriteHeader(w, StatusNoContent), Xml(EmptyEnvelope))
     ELSE Write(WriteHeader(w, StatusOK),
                Xml([NewResponseEnvelope EXCEPT
                       !.Content = Head(sessions[CHOOSE k \in waiting : TRUE].PendingRPCs)]))

\* sendEmptyResponse: WriteHeader(204), then Write of the literal envelope.
sendEmptyResponse(w) == Write(WriteHeader(w, StatusNoContent), Xml(EmptyEnvelope))

\* Mutant: every fault carries the internal-error code.
sendSOAPFault_InternalError(w, faultCode, faultString) ==
  Write(Write(WriteHeader(w, StatusInternalServerError), XmlHeader),
        Xml(FaultEnvelope(FaultInternalError, faultString)))

\* sendSOAPFault: WriteHeader(500), the XML header, the fault envelope.
sendSOAPFault(w, faultCode, faultString) ==
  Write(Write(WriteHeader(w, StatusInternalServerError), XmlHeader),
        Xml(FaultEnvelope(faultCode, faultString)))

\* The tail of handleCwmpRequest: WriteHeader(200), the XML header, the envelope.
sendResponse(w, response) ==
  Write(Write(WriteHeader(w, StatusOK), XmlHeader), Xml(response))

\* strings.Contains(string(bodyBytes), name) on the marshalled body content.
BodyContains(req, name) ==
  \/ req.method = name
  \/ name = "Inform" /\ req.param = InformIntervalName

\* xml.Unmarshal(bodyBytes, &v) for the struct of method `name`.
Unmarshals(req, name) == req.method = name /\ req.ok

\* handleGetParameterValuesResponse: [err, response].
handleGetParameterValuesResponse(req, response) ==
  IF Unmarshals(req, "GetParameterValuesResponse")
  THEN [err |-> FALSE, response |-> [response EXCEPT !.Header.NoMoreRequests = TRUE]]
  ELSE [err |-> TRUE, response |-> response]

\* handleSetParameterValuesResponse: [err, response].
handleSetParameterValuesResponse(req, response) ==
  IF Unmarshals(req, "SetParameterValuesResponse")
  THEN [err |-> FALSE, response |-> [response EXCEPT !.Header.NoMoreRequests = TRUE]]
  ELSE [err |-> TRUE, response |-> response]

\* The RPCs the envelopes of a response body carry.
IsRpc(c) == c \in Rpcs
RpcsIn(body) == SelectSeq([i \in 1..Len(body) |-> body[i].env.Content], IsRpc)

\* The device's request answers an RPC the server sent it.
IsRpcResponse(req) ==
  req.method \in {"GetParameterValuesResponse", "SetParameterValuesResponse", "RebootResponse"}

\* The HTTP response leaves the server: the goroutine is done, the request
\* has answered one RPC if it was an RPC response, and the RPCs the response
\* carries are with the device.
Reply(w, writer, req) ==
  /\ resp' = [status |-> writer.status, ctype |-> writer.ctype, body |-> writer.body,
              req |-> req]
  /\ handler' = [handler EXCEPT ![w] = Idle]
  /\ sent' = [sent EXCEPT ![AcsDeviceId(req.dev)] = @ \o RpcsIn(writer.body)]
  /\ inflight' = [inflight EXCEPT ![AcsDeviceId(req.dev)] =
                    (IF IsRpcResponse(req) /\ @ > 0 THEN @ - 1 ELSE @)
                      + Len(RpcsIn(writer.body))]
  /\ ret' = NoRet

\* handleInform up to getOrCreateSession; the parse failure returns an error.
handleInformSession(w, hw, req) ==
  IF Unmarshals(req, "Inform")
  THEN /\ sessions' = getOrCreateSession(AcsDeviceId(req.dev))
       /\ handler' = [handler EXCEPT ![w] =
                        [pc |-> "inform", req |-> req, deviceId |-> AcsDeviceId(req.dev)]]
       /\ resp' = NoResp
       /\ ret' = NoRet
       /\ UNCHANGED <<sent, inflight>>
  ELSE /\ Reply(w, sendSOAPFault(hw, FaultInternalError, "error parsing Inform message"), req)
       /\ UNCHANGED sessions

\* handleInform after getOrCreateSession: the session's fields are written
\* (no lock held), the InformResponse is built and sent.
handleInformUpdate(w) ==
  /\ handler[w].pc = "inform"
  /\ LET id == handler[w].deviceId
         response == [NewResponseEnvelope EXCEPT
                        !.Content = [method |-> "InformResponse"],
                        !.Header.NoMoreRequests = TRUE]
     IN /\ sessions' = [sessions EXCEPT ![id].State = SessionStateInform,
                                        ![id].LastActivity = now]
        /\ Reply(w, sendResponse([NewWriter EXCEPT !.ctype = "text/xml"], response),
                 handler[w].req)
  /\ UNCHANGED <<rpcCaller, apiHandler, now, devices, deviceStore, paramStore, paramWriter,
                 enqueued>>

\* processSOAPRequest for a body that is not routed to handleInform.
processSOAPRequest(w, hw, req) ==
  LET response == NewResponseEnvelope
      r == IF BodyContains(req, "GetParameterValuesResponse")
           THEN handleGetParameterValuesResponse(req, response)
           ELSE IF BodyContains(req, "SetParameterValuesResponse")
           THEN handleSetParameterValuesResponse(req, response)
           ELSE [err |-> FALSE, response |-> response]
  IN /\ IF r.err
        THEN Reply(w, sendSOAPFault(hw, FaultInternalError, "error parsing response"), req)
        ELSE Reply(w, sendResponse(hw, r.response), req)
     /\ UNCHANGED sessions

\* handleCwmpRequest: one HTTP POST, up to its response or up to the point
\* where handleInform has its session.
handleCwmpRequest(w, req) ==
  /\ handler[w].pc = "idle"
  /\ LET hw == [NewWriter EXCEPT !.ctype = "text/xml"]
     IN IF req.body = "readerr"
        THEN /\ Reply(w, HttpError(NewWriter, "Bad Request", StatusBadRequest), req)
             /\ UNCHANGED sessions
        ELSE IF req.body = "empty"
        THEN /\ Reply(w, sendEmptyResponse(hw), req)
             /\ UNCHANGED sessions
        ELSE IF req.body = "garbage"
        THEN /\ Reply(w, sendSOAPFault(hw, FaultInvalidArguments, "Invalid SOAP envelope"), req)
             /\ UNCHANGED sessions
        ELSE IF BodyContains(req, "Inform")
        THEN handleInformSession(w, hw, req)
        ELSE processSOAPRequest(w, hw, req)
  /\ UNCHANGED <<rpcCaller, apiHandler, now, devices, deviceStore, paramStore, paramWriter,
                 enqueued>>

\* The number of RPCs queued, over all sessions.
RECURSIVE SumLen(_, _)
SumLen(f, S) ==
  IF S = {} THEN 0
  ELSE LET x == CHOOSE y \in S : TRUE IN Len(f[x].PendingRPCs) + SumLen(f, S \ {x})
QueuedTotal == SumLen(sessions, DOMAIN sessions)

\* Mutant: a session is created for a device that has none.
SendRPC_CreatesSession(deviceId, rpc, op) ==
  /\ QueuedTotal < MaxQueue
  /\ sessions' = [getOrCreateSession(deviceId) EXCEPT ![deviceId].PendingRPCs = Append(@, rpc)]
  /\ enqueued' = [enqueued EXCEPT ![deviceId] = Append(@, rpc)]
  /\ ret' = [op |-> op, id |-> deviceId, arg |-> <<rpc>>, err |-> "nil"]
  /\ resp' = NoResp

\* SendRPC(deviceId, rpc), called as `op`: the error when no session is stored
\* under deviceId, else the RPC appended under the session's lock.
SendRPC(deviceId, rpc, op) ==
  /\ QueuedTotal < MaxQueue
  /\ IF deviceId \in DOMAIN sessions
     THEN /\ sessions' = [sessions EXCEPT ![deviceId].PendingRPCs = Append(@, rpc)]
          /\ enqueued' = [enqueued EXCEPT ![deviceId] = Append(@, rpc)]
          /\ ret' = [op |-> op, id |-> deviceId, arg |-> <<rpc>>, err |-> "nil"]
     ELSE /\ ret' = [op |-> op, id |-> deviceId, arg |-> <<rpc>>, err |-> "no active session"]
          /\ UNCHANGED <<sessions, enqueued>>
  /\ resp' = NoResp

\* The steps of one SendRPC that runs beside others.
\* Mutant: session.mutex is never held.
SessionLockFree_Unlocked(deviceId) == TRUE

\* session.mutex of the session under deviceId is free: no SendRPC is
\* between its Lock and its Unlock.
SessionLockFree(deviceId) ==
  \A c \in Callers : ~ (rpcCaller[c].pc = "locked" /\ rpcCaller[c].deviceId = deviceId)

\* SendRPC up to session.mutex.Lock: the lookup under acs.mutex.RLock.
SendRPCLookup(c, deviceId, rpc) ==
  /\ rpcCaller[c].pc = "idle"
  /\ QueuedTotal < MaxQueue
  /\ IF deviceId \in DOMAIN sessions
     THEN /\ rpcCaller' = [rpcCaller EXCEPT ![c] =
                            [pc |-> "lock", deviceId |-> deviceId, rpc |-> rpc, queue |-> <<>>]]
          /\ ret' = NoRet
     ELSE /\ ret' = [op |-> "SendRPC", id |-> deviceId, arg |-> <<rpc>>,
                     err |-> "no active session"]
          /\ UNCHANGED rpcCaller
  /\ resp' = NoResp
  /\ UNCHANGED <<apiHandler, now, sessions, handler, devices, deviceStore, paramStore,
                 paramWriter, enqueued, sent, inflight>>

\* session.mutex.Lock() returns, and append reads session.PendingRPCs.
SendRPCLock(c) ==
  /\ rpcCaller[c].pc = "lock"
  /\ SessionLockFree(rpcCaller[c].deviceId)
  /\ rpcCaller' = [rpcCaller EXCEPT ![c].pc = "locked",
                                   ![c].queue = sessions[rpcCaller[c].deviceId].PendingRPCs]
  /\ ret' = NoRet
  /\ resp' = NoResp
  /\ UNCHANGED <<apiHandler, now, sessions, handler, devices, deviceStore, paramStore,
                 paramWriter, enqueued, sent, inflight>>

\* session.PendingRPCs is assigned the appended slice; Unlock; return nil.
SendRPCAppend(c) ==
  /\ rpcCaller[c].pc = "locked"
  /\ LET k == rpcCaller[c].deviceId
     IN /\ sessions' = [sessions EXCEPT
                          ![k].PendingRPCs = Append(rpcCaller[c].queue, rpcCaller[c].rpc)]
        /\ enqueued' = [enqueued EXCEPT ![k] = Append(@, rpcCaller[c].rpc)]
        /\ ret' = [op |-> "SendRPC", id |-> k, arg |-> <<rpcCaller[c].rpc>>, err |-> "nil"]
  /\ rpcCaller' = [rpcCaller EXCEPT ![c] = NoCall]
  /\ resp' = NoResp
  /\ UNCHANGED <<apiHandler, now, handler, devices, deviceStore, paramStore, paramWriter,
                 sent, inflight>>

\* AcsServer.GetParameterValues / SetParameterValues / RebootDevice.
AcsGetParameterValues(deviceId) ==
  /\ SendRPC(deviceId, GetParameterValuesRpc, "acs.GetParameterValues")
  /\ UNCHANGED <<rpcCaller, apiHandler, now, handler, devices, deviceStore, paramStore,
                 paramWriter, sent, inflight>>

AcsSetParameterValues(deviceId) ==
  /\ SendRPC(deviceId, SetParameterValuesRpc, "acs.SetParameterValues")
  /\ UNCHANGED <<rpcCaller, apiHandler, now, handler, devices, deviceStore, paramStore,
                 paramWriter, sent, inflight>>

AcsRebootDevice(deviceId) ==
  /\ SendRPC(deviceId, RebootRpc, "acs.RebootDevice")
  /\ UNCHANGED <<rpcCaller, apiHandler, now, handler, devices, deviceStore, paramStore,
                 paramWriter, sent, inflight>>

\* ------------------------------------------------------------------- time
\* checkDeviceTimeouts: PeriodicInformInterval*2 seconds.
timeout == PeriodicInformInterval * 2

\* The clock advances by one liveness window, `ticks` times at most.
Tick(ticks) ==
  /\ now < ticks * timeout
  /\ now' = now + timeout
  /\ resp' = NoResp
  /\ ret' = NoRet
  /\ UNCHANGED <<rpcCaller, apiHandler, sessions, handler, devices, deviceStore, paramStore,
                 paramWriter, enqueued, sent, inflight>>

\* -------------------------------------------------------------- CwmpManager
HwVersionName == "Device.DeviceInfo.HardwareVersion"
ConnReqUrlName == "Device.ManagementServer.ConnectionRequestURL"
ParameterKeyName == "Device.ManagementServer.ParameterKey"

\* ParameterValueStruct lists a caller registers a device with.
SwParam(v) == [Name |-> SwVersionName, Value |-> v, Type |-> "string"]
ParamLists == {<<SwParam("1.2.3")>>, <<SwParam("1.2.4")>>}

\* for _, param := range list { m[param.Name] = param }
RECURSIVE PutAll(_, _)
PutAll(m, list) ==
  IF list = <<>> THEN m
  ELSE PutAll(MapPut(m, Head(list).Name, Head(list)), Tail(list))

\* The switch of RegisterCwmpDevice: the value of the last parameter `name`.
RECURSIVE LastValue(_, _, _)
LastValue(list, name, cur) ==
  IF list = <<>> THEN cur
  ELSE LastValue(Tail(list), name, IF Head(list).Name = name THEN Head(list).Value ELSE cur)

\* The CwmpDevice RegisterCwmpDevice builds.
NewCwmpDevice(deviceInfo, parameterList) ==
  [DeviceId |-> CmDeviceId(deviceInfo),
   Manufacturer |-> deviceInfo.Manufacturer,
   OUI |-> deviceInfo.OUI,
   ProductClass |-> deviceInfo.ProductClass,
   SerialNumber |-> deviceInfo.SerialNumber,
   SoftwareVersion |-> LastValue(parameterList, SwVersionName, ""),
   HardwareVersion |-> LastValue(parameterList, HwVersionName, ""),
   ConnectionRequestURL |-> LastValue(parameterList, ConnReqUrlName, ""),
   ParameterKey |-> LastValue(parameterList, ParameterKeyName, ""),
   LastInformTime |-> now,
   IsOnline |-> TRUE,
   Parameters |-> PutAll(EmptyMap, parameterList)]

\* The db.CwmpDevice document storeDeviceInDB converts the device to.
DbDevice(device) ==
  [ID |-> device.DeviceId,
   OUI |-> device.OUI,
   ProductClass |-> device.ProductClass,
   SerialNumber |-> device.SerialNumber,
   Manufacturer |-> device.Manufacturer,
   HardwareVersion |-> device.HardwareVersion,
   SoftwareVersion |-> device.SoftwareVersion,
   ConnectionRequestURL |-> device.ConnectionRequestURL,
   LastInform |-> device.LastInformTime,
   IPAddress |-> "",
   Parameters |-> [k \in DOMAIN device.Parameters |-> device.Parameters[k].Value],
   CreatedAt |-> now,
   UpdatedAt |-> now]

\* collection.InsertOne: refused when the store fails, when the _id exists,
\* or when the unique index (oui, serial_number) has the pair already.
InsertOneErr(doc, dbDown) ==
  IF dbDown THEN "store unavailable"
  ELSE IF \/ doc.ID \in DOMAIN deviceStore
          \/ \E k \in DOMAIN deviceStore :
               /\ deviceStore[k].OUI = doc.OUI
               /\ deviceStore[k].SerialNumber = doc.SerialNumber
       THEN "duplicate key"
       ELSE "nil"

\* storeDeviceInDB(device): [err, store].
storeDeviceInDB(device, dbDown) ==
  LET doc == DbDevice(device)
      err == InsertOneErr(doc, dbDown)
  IN [err |-> err,
      store |-> IF err = "nil" THEN MapPut(deviceStore, doc.ID, doc) ELSE deviceStore]

\* RegisterCwmpDevice(deviceInfo, parameterList), under cm.mutex: the entry is
\* put into cm.devices, then the device is inserted into the store.
RegisterCwmpDevice(deviceInfo, parameterList, dbDown) ==
  LET device == NewCwmpDevice(deviceInfo, parameterList)
      stored == storeDeviceInDB(device, dbDown)
  IN /\ devices' = MapPut(devices, device.DeviceId, device)
     /\ deviceStore' = stored.store
     /\ ret' = [op |-> "RegisterCwmpDevice", id |-> device.DeviceId, arg |-> parameterList,
                 err |-> stored.err]
     /\ resp' = NoResp
     /\ paramWriter' = [u \in Writers |->
                     IF paramWriter[u].deviceId = device.DeviceId
                     THEN [paramWriter[u] EXCEPT !.locked = FALSE]
                     ELSE paramWriter[u]]
     /\ UNCHANGED <<rpcCaller, apiHandler, now, sessions, handler, enqueued, sent, inflight,
                    paramStore>>

\* Mutant: a device that is not in the registry is taken to be online.
CmCall_NoLookup(deviceId, rpc, op) ==
  /\ IF deviceId \in DOMAIN devices /\ ~ devices[deviceId].IsOnline
     THEN /\ ret' = [op |-> op, id |-> deviceId, arg |-> <<rpc>>, err |-> "device is offline"]
          /\ resp' = NoResp
          /\ UNCHANGED <<sessions, enqueued>>
     ELSE SendRPC(deviceId, rpc, op)
  /\ UNCHANGED <<rpcCaller, apiHandler, now, handler, devices, deviceStore, paramStore,
                 paramWriter, sent, inflight>>

\* The common body of CwmpManager.GetParameterValues, SetParameterValues and
\* RebootCwmpDevice: GetCwmpDevice, the IsOnline test, then the ACS call.
CmCall(deviceId, rpc, op) ==
  /\ IF deviceId \notin DOMAIN devices
     THEN /\ ret' = [op |-> op, id |-> deviceId, arg |-> <<rpc>>, err |-> "device not found"]
          /\ resp' = NoResp
          /\ UNCHANGED <<sessions, enqueued>>
     ELSE IF ~ devices[deviceId].IsOnline
     THEN /\ ret' = [op |-> op, id |-> deviceId, arg |-> <<rpc>>, err |-> "device is offline"]
          /\ resp' = NoResp
          /\ UNCHANGED <<sessions, enqueued>>
     ELSE SendRPC(deviceId, rpc, op)
  /\ UNCHANGED <<rpcCaller, apiHandler, now, handler, devices, deviceStore, paramStore,
                 paramWriter, sent, inflight>>

CmGetParameterValues(deviceId) == CmCall(deviceId, GetParameterValuesRpc, "GetParameterValues")

CmSetParameterValues(deviceId) == CmCall(deviceId, SetParameterValuesRpc, "SetParameterValues")

RebootCwmpDevice(deviceId) == CmCall(deviceId, RebootRpc, "RebootCwmpDevice")

\* UpdateDeviceStatus(deviceId, isOnline), under cm.mutex.
UpdateDeviceStatus(deviceId, isOnline) ==
  /\ IF deviceId \in DOMAIN devices
     THEN /\ devices' = [devices EXCEPT
                           ![deviceId].IsOnline = isOnline,
                           ![deviceId].LastInformTime = IF isOnline THEN now ELSE @]
          /\ ret' = [op |-> "UpdateDeviceStatus", id |-> deviceId, arg |-> <<isOnline>>,
                     err |-> "nil"]
     ELSE /\ ret' = [op |-> "UpdateDeviceStatus", id |-> deviceId, arg |-> <<isOnline>>,
                    err |-> "device not found"]
          /\ UNCHANGED devices
  /\ resp' = NoResp
  /\ UNCHANGED <<rpcCaller, apiHandler, now, sessions, handler, deviceStore, paramStore,
                 paramWriter, enqueued, sent, inflight>>

\* Mutant: the sweep deletes the devices it finds timed out.
checkDeviceTimeouts_Removes ==
  /\ devices' = [d \in {e \in DOMAIN devices :
                           ~ (devices[e].IsOnline /\ now - devices[e].LastInformTime > timeout)}
                   |-> devices[d]]
  /\ ret' = [op |-> "checkDeviceTimeouts", id |-> <<>>, arg |-> <<>>, err |-> "nil"]
  /\ resp' = NoResp
  /\ UNCHANGED <<rpcCaller, apiHandler, now, sessions, handler, deviceStore, paramStore,
                 paramWriter, enqueued, sent, inflight>>

\* checkDeviceTimeouts, under cm.mutex: one sweep of the janitor.
checkDeviceTimeouts ==
  /\ devices' = [d \in DOMAIN devices |->
                   IF devices[d].IsOnline /\ now - devices[d].LastInformTime > timeout
                   THEN [devices[d] EXCEPT !.IsOnline = FALSE]
                   ELSE devices[d]]
  /\ ret' = [op |-> "checkDeviceTimeouts", id |-> <<>>, arg |-> <<>>, err |-> "nil"]
  /\ resp' = NoResp
  /\ UNCHANGED <<rpcCaller, apiHandler, now, sessions, handler, deviceStore, paramStore,
                 paramWriter, enqueued, sent, inflight>>

\* ------------------------------------------------------- parameter store
\* The parameter lists UpdateDeviceParameters is called with.
HwParam == [Name |-> HwVersionName, Value |-> "2.0", Type |-> "string"]
UpdateLists == {<<SwParam("1.2.4")>>, <<SwParam("1.2.5"), HwParam>>}

\* The _id the store generates for a document inserted without one.
ObjectID == <<"ObjectID">>

\* fmt.Sprintf("%s_%s", deviceId, param.Name) of updateDeviceParametersInDB.
ParamId(deviceId, name) == deviceId \o <<"_">> \o <<name>>

\* The db.CwmpParameter updateDeviceParametersInDB builds for one parameter.
DbParam(deviceId, param) ==
  [ID |-> ParamId(deviceId, param.Name), DeviceID |-> deviceId, Path |-> param.Name,
   Value |-> param.Value, Type |-> param.Type, Writable |-> TRUE, LastUpdate |-> now]

\* A CwmpParameter as a caller of UpsertCwmpParameters passes it; the
\* replacement document built from it has no _id.
CwmpParameter(deviceId, param) ==
  [ID |-> ObjectID, DeviceID |-> deviceId, Path |-> param.Name, Value |-> param.Value,
   Type |-> param.Type, Writable |-> TRUE, LastUpdate |-> now]

\* The lists UpsertCwmpParameters is called with.
UpsertLists ==
  {[i \in 1..Len(l) |-> CwmpParameter(CmDeviceId(Device1), l[i])] : l \in UpdateLists}

\* The filter {device_id, path}: the positions of the documents it matches.
Matching(store, doc) ==
  {i \in 1..Len(store) : store[i].DeviceID = doc.DeviceID /\ store[i].Path = doc.Path}

\* Mutant: the collection has no unique index on (device_id, path).
UniqueIndexHit_NoIndex(store, doc) == FALSE

\* The unique index on (device_id, path): an insert of doc would violate it.
UniqueIndexHit(store, doc) == Matching(store, doc) # {}

\* The _id index: an insert of doc would repeat an _id.
IdHit(store, doc) ==
  doc.ID # ObjectID /\ \E i \in 1..Len(store) : store[i].ID = doc.ID

\* One upsert (UpdateOne with $set, or ReplaceOne) as the store applies it,
\* `matched` being what its filter found: [err, store].  A matched document
\* is updated in place and keeps its _id, which $set may not change; else
\* the document is inserted, unless an index refuses it, in which case the
\* store reports the duplicate key or (retry) runs the upsert as an update.
UpsertOne(store, doc, matched, setsId, retry) ==
  LET m == Matching(store, doc)
  IN IF m # {} /\ (matched \/ retry)
     THEN LET i == CHOOSE j \in m : \A k \in m : j <= k
          IN IF setsId /\ store[i].ID # doc.ID
             THEN [err |-> "immutable _id", store |-> store]
             ELSE [err |-> "nil", store |-> [store EXCEPT ![i] = [doc EXCEPT !.ID = store[i].ID]]]
     ELSE IF UniqueIndexHit(store, doc) \/ IdHit(store, doc)
     THEN [err |-> "duplicate key", store |-> store]
     ELSE [err |-> "nil", store |-> Append(store, doc)]

\* UpdateDeviceParameters up to the first store write: GetCwmpDevice, the
\* device's mutex taken, the parameters put into device.Parameters.
UpdateDeviceParameters(u, deviceId, parameters) ==
  /\ paramWriter[u].pc = "idle"
  /\ IF deviceId \notin DOMAIN devices
     THEN /\ ret' = [op |-> "UpdateDeviceParameters", id |-> deviceId, arg |-> <<0>>,
                     err |-> "device not found"]
          /\ UNCHANGED <<devices, paramWriter>>
     ELSE /\ ~ \E v \in Writers : paramWriter[v].locked /\ paramWriter[v].deviceId = deviceId
          /\ devices' = [devices EXCEPT ![deviceId].Parameters = PutAll(@, parameters)]
          /\ paramWriter' = [paramWriter EXCEPT ![u] =
                          [pc |-> "match", op |-> "UpdateDeviceParameters",
                           deviceId |-> deviceId,
                           list |-> [i \in 1..Len(parameters) |-> DbParam(deviceId, parameters[i])],
                           i |-> 1, matched |-> FALSE, written |-> 0, locked |-> TRUE]]
          /\ ret' = NoRet
  /\ resp' = NoResp
  /\ UNCHANGED <<rpcCaller, apiHandler, now, sessions, handler, deviceStore, enqueued, sent,
                 inflight, paramStore>>

\* UpsertCwmpParameters up to the first write of its BulkWrite.
UpsertCwmpParameters(u, parameters) ==
  /\ paramWriter[u].pc = "idle"
  /\ paramWriter' = [paramWriter EXCEPT ![u] =
                  [pc |-> "match", op |-> "UpsertCwmpParameters", deviceId |-> <<>>,
                   list |-> parameters, i |-> 1, matched |-> FALSE, written |-> 0,
                   locked |-> FALSE]]
  /\ ret' = NoRet
  /\ resp' = NoResp
  /\ UNCHANGED <<rpcCaller, apiHandler, now, sessions, handler, devices, deviceStore, enqueued,
                 sent, inflight, paramStore>>

\* The store evaluates the filter of the paramWriter's next upsert.
upsertMatch(u) ==
  /\ paramWriter[u].pc = "match"
  /\ LET w == paramWriter[u]
     IN paramWriter' = [paramWriter EXCEPT ![u].pc = "write",
                                          ![u].matched = Matching(paramStore, w.list[w.i]) # {}]
  /\ ret' = NoRet
  /\ resp' = NoResp
  /\ UNCHANGED <<rpcCaller, apiHandler, now, sessions, handler, devices, deviceStore, enqueued,
                 sent, inflight, paramStore>>

\* The store applies the paramWriter's next upsert, or fails; the call returns on
\* the first error (the loop of updateDeviceParametersInDB, the ordered
\* BulkWrite) or after the last parameter.
upsertWrite(u, fail, retry) ==
  /\ paramWriter[u].pc = "write"
  /\ LET w == paramWriter[u]
         r == IF fail THEN [err |-> "store unavailable", store |-> paramStore]
              ELSE UpsertOne(paramStore, w.list[w.i], w.matched,
                             w.op = "UpdateDeviceParameters", retry)
     IN /\ paramStore' = r.store
        /\ IF r.err # "nil"
           THEN /\ paramWriter' = [paramWriter EXCEPT ![u] = NoWrite]
                /\ ret' = [op |-> w.op, id |-> w.deviceId, arg |-> <<w.written>>, err |-> r.err]
           ELSE IF w.i = Len(w.list)
           THEN /\ paramWriter' = [paramWriter EXCEPT ![u] = NoWrite]
                /\ ret' = [op |-> w.op, id |-> w.deviceId, arg |-> <<w.written + 1>>,
                           err |-> "nil"]
           ELSE /\ paramWriter' = [paramWriter EXCEPT ![u].pc = "match", ![u].i = w.i + 1,
                                            ![u].written = w.written + 1]
                /\ ret' = NoRet
  /\ resp' = NoResp
  /\ UNCHANGED <<rpcCaller, apiHandler, now, sessions, handler, devices, deviceStore, enqueued,
                 sent, inflight>>

\* The registry and the parameter collection, written by the controller
\* (UpdateDeviceParameters) and by callers of UpsertCwmpParameters.
\* ---------------------------------------------------------------- ApiServer
\* 5 * time.Minute, in seconds.
FiveMinutes == 5 * 60

\* The clock advances by d seconds; the model keeps it within MaxSkew seconds
\* after the start and after the five minutes, and stops it there.
Elapse(d) ==
  /\ now + d <= FiveMinutes + MaxSkew
  /\ (now + d) % FiveMinutes <= MaxSkew
  /\ now' = now + d
  /\ resp' = NoResp
  /\ ret' = NoRet
  /\ UNCHANGED <<rpcCaller, apiHandler, sessions, handler, devices, deviceStore, paramStore,
                 paramWriter, enqueued, sent, inflight>>

\* The values of the query parameters manufacturer and product_class: <<>> is
\* an absent parameter, the others are literal patterns.
ManufacturerFilters == {<<>>, <<"a">>, <<"B">>}
ProductClassFilters == {<<>>, <<"R">>}

\* "$options": "i": letters compare without case.
Fold(c) == IF c = "a" THEN "A" ELSE IF c = "b" THEN "B" ELSE IF c = "r" THEN "R" ELSE c

\* {"$regex": pattern, "$options": "i"} with a literal pattern: the field
\* contains the pattern somewhere.
RegexMatches(pattern, field) ==
  \E i \in 0..(Len(field) - Len(pattern)) :
    \A j \in 1..Len(pattern) : Fold(field[i + j]) = Fold(pattern[j])

\* The filter getCwmpDevices builds, applied to one document; the clock is
\* read once, here.
FilterMatches(doc, manufacturer, productClass, onlineOnly) ==
  /\ manufacturer # <<>> => RegexMatches(manufacturer, doc.Manufacturer)
  /\ productClass # <<>> => RegexMatches(productClass, doc.ProductClass)
  /\ onlineOnly => doc.LastInform >= now - FiveMinutes

\* GetCwmpDevicesByFilter(filter): the documents of the collection that match.
GetCwmpDevicesByFilter(manufacturer, productClass, onlineOnly) ==
  {deviceStore[k] : k \in {x \in DOMAIN deviceStore :
      FilterMatches(deviceStore[x], manufacturer, productClass, onlineOnly)}}

\* The CwmpDeviceInfo of a document; the clock is read again, per device.
CwmpDeviceInfo(dbDevice) ==
  [DeviceId |-> dbDevice.ID,
   Manufacturer |-> dbDevice.Manufacturer,
   OUI |-> dbDevice.OUI,
   ProductClass |-> dbDevice.ProductClass,
   SerialNumber |-> dbDevice.SerialNumber,
   SoftwareVersion |-> dbDevice.SoftwareVersion,
   HardwareVersion |-> dbDevice.HardwareVersion,
   LastInformTime |-> dbDevice.LastInform,
   IsOnline |-> (now - dbDevice.LastInform <= FiveMinutes),
   ParameterCount |-> Cardinality(DOMAIN dbDevice.Parameters),
   ConnectionRequestURL |-> dbDevice.ConnectionRequestURL]

\* getCwmpDevices up to the return of the query: the filter is built and the
\* store answers it, or the store fails and the handler reports the error.
getCwmpDevicesFind(manufacturer, productClass, onlineOnly, dbErr) ==
  /\ apiHandler.pc = "idle"
  /\ IF dbErr
     THEN /\ apiHandler' = NoQuery
          /\ ret' = [op |-> "getCwmpDevices", id |-> <<>>,
                     arg |-> [onlineOnly |-> onlineOnly, devices |-> {}],
                     err |-> "failed to retrieve devices"]
     ELSE /\ apiHandler' = [pc |-> "found", onlineOnly |-> onlineOnly,
                            found |-> GetCwmpDevicesByFilter(manufacturer, productClass,
                                                             onlineOnly)]
          /\ ret' = NoRet
  /\ resp' = NoResp
  /\ UNCHANGED <<rpcCaller, now, sessions, handler, devices, deviceStore, paramStore,
                 paramWriter, enqueued, sent, inflight>>

\* getCwmpDevices from the conversion loop to httpSendRes(w, devices, nil).
getCwmpDevicesRespond ==
  /\ apiHandler.pc = "found"
  /\ ret' = [op |-> "getCwmpDevices", id |-> <<>>,
             arg |-> [onlineOnly |-> apiHandler.onlineOnly,
                      devices |-> {CwmpDeviceInfo(d) : d \in apiHandler.found}],
             err |-> "nil"]
  /\ apiHandler' = NoQuery
  /\ resp' = NoResp
  /\ UNCHANGED <<rpcCaller, now, sessions, handler, devices, deviceStore, paramStore,
                 paramWriter, enqueued, sent, inflight>>

NextParams ==
  \/ \E l \in ParamLists : RegisterCwmpDevice(Device1, l, FALSE)
  \/ \E u \in Writers, i \in DeviceInfos, l \in UpdateLists :
       UpdateDeviceParameters(u, CmDeviceId(i), l)
  \/ \E u \in Writers, l \in UpsertLists : UpsertCwmpParameters(u, l)
  \/ \E u \in Writers : upsertMatch(u)
  \/ \E u \in Writers, fail \in BOOLEAN, retry \in BOOLEAN : upsertWrite(u, fail, retry)

SpecParams == Init /\ [][NextParams]_vars

NextCm ==
  \/ \E i \in DeviceInfos, l \in ParamLists, down \in BOOLEAN : RegisterCwmpDevice(i, l, down)
  \/ \E d \in CallerIds : CmGetParameterValues(d)
  \/ \E d \in CallerIds : CmSetParameterValues(d)
  \/ \E d \in CallerIds : RebootCwmpDevice(d)
  \/ \E d \in CallerIds, b \in BOOLEAN : UpdateDeviceStatus(d, b)
  \/ checkDeviceTimeouts
  \/ Tick(MaxTicks)

SpecCm == Init /\ [][NextCm]_vars

\* The registry while time passes.  Nothing starts MonitorCwmpDevices (InitCwmp
\* starts the ACS server only), so no step of the janitor is ever due.
SpecCmFair == Init /\ [][NextCm]_vars /\ WF_vars(Tick(MaxTicks))

\* The controller as InitCwmp sets it up: the registry and the ACS server it
\* creates, devices that Inform, and the operator calling either.
NextController ==
  \/ \E i \in DeviceInfos, l \in ParamLists : RegisterCwmpDevice(i, l, FALSE)
  \/ \E req \in InformRequests : handleCwmpRequest("w1", req)
  \/ handleInformUpdate("w1")
  \/ \E d \in CallerIds : CmGetParameterValues(d)
  \/ \E d \in CallerIds : CmSetParameterValues(d)
  \/ \E d \in CallerIds : RebootCwmpDevice(d)
  \/ \E d \in CallerIds : AcsGetParameterValues(d)
  \/ \E d \in CallerIds, b \in BOOLEAN : UpdateDeviceStatus(d, b)

SpecController == Init /\ [][NextController]_vars

NextAcs ==
  \/ \E req \in Requests : handleCwmpRequest("w1", req)
  \/ handleInformUpdate("w1")
  \/ \E d \in CallerIds : AcsGetParameterValues(d)
  \/ \E d \in CallerIds : AcsSetParameterValues(d)
  \/ \E d \in CallerIds : AcsRebootDevice(d)
  \/ Tick(MaxSessionTicks)

SpecAcs == Init /\ [][NextAcs]_vars

\* The RPC each concurrent caller queues.
RpcOf(c) == IF c = "c1" THEN GetParameterValuesRpc ELSE RebootRpc

\* The ACS with its goroutines side by side: two request handlers with
\* Informs, two callers of SendRPC.
NextAcsConcurrent ==
  \/ \E w \in Workers, d \in DeviceInfos :
       handleCwmpRequest(w, Req("soap", d, "id1", "Inform", TRUE, "none"))
  \/ \E w \in Workers : handleInformUpdate(w)
  \/ \E c \in Callers, d \in DeviceInfos : SendRPCLookup(c, AcsDeviceId(d), RpcOf(c))
  \/ \E c \in Callers : SendRPCLock(c)
  \/ \E c \in Callers : SendRPCAppend(c)

SpecAcsConcurrent == Init /\ [][NextAcsConcurrent]_vars

\* The API server over the device collection: devices get registered, time
\* passes, GET /cwmp/devices/ is served.
NextApi ==
  \/ \E i \in DeviceInfos : RegisterCwmpDevice(i, <<SwParam("1.2.3")>>, FALSE)
  \/ \E d \in {1, FiveMinutes} : Elapse(d)
  \/ \E m \in ManufacturerFilters, c \in ProductClassFilters, o \in BOOLEAN, e \in BOOLEAN :
       getCwmpDevicesFind(m, c, o, e)
  \/ getCwmpDevicesRespond

SpecApi == Init /\ [][NextApi]_vars

\* Devices with separator characters in their fields: they Inform, two at a
\* time, and get registered.
NextIds ==
  \/ \E w \in Workers, d \in SeparatorDevices :
       handleCwmpRequest(w, Req("soap", d, "id1", "Inform", TRUE, "none"))
  \/ \E w \in Workers : handleInformUpdate(w)
  \/ \E i \in SeparatorDevices : RegisterCwmpDevice(i, <<SwParam("1.2.3")>>, FALSE)

SpecIds == Init /\ [][NextIds]_vars

\* ================================================================== claims
\* The queue of the session stored under key k; empty when there is none.
Pending(k) == IF k \in DOMAIN sessions THEN sessions[k].PendingRPCs ELSE <<>>

\* The parameter list of the Informs of the model (end-to-end scenario 1).
InformParameterList == <<SwParam("1.2.3")>>

\* The step answered an empty POST of device d.
AnsweredEmptyPost(d) == resp'.req.body = "empty" /\ resp'.req.dev = d

\* C1: a RegisterCwmpDevice for an id that is registered with a different
\* parameter list fails, and leaves the registry entry and the store as they
\* were.
C1_ConflictRejected ==
  [][(/\ ret'.op = "RegisterCwmpDevice"
      /\ ret'.id \in DOMAIN devices
      /\ PutAll(EmptyMap, ret'.arg) # devices[ret'.id].Parameters)
     => (/\ ret'.err # "nil"
         /\ devices'[ret'.id] = devices[ret'.id]
         /\ deviceStore' = deviceStore)]_vars

\* C2: per device, the RPCs handed to the device followed by the RPCs still
\* queued are the RPCs enqueued, in order (none overtakes, none is lost, none
\* is sent twice), and the server ends a device's session with 204 only when
\* every RPC enqueued for it has been handed over (none is skipped).
C2_FifoDelivery ==
  /\ \A k \in CallerIds : sent[k] \o Pending(k) = enqueued[k]
  /\ (resp.req.body = "empty" /\ resp.status = StatusNoContent)
       => sent[AcsDeviceId(resp.req.dev)] = enqueued[AcsDeviceId(resp.req.dev)]

\* C3: an empty POST of a device whose session is in state Inform is answered
\* with 200 and the RPC at the head of its queue, which is removed, when the
\* queue is not empty, and with 204 when it is empty.
C3_EmptyPostGetsHead ==
  [][\A d \in DeviceInfos :
       LET k == AcsDeviceId(d)
       IN (/\ AnsweredEmptyPost(d)
           /\ k \in DOMAIN sessions
           /\ sessions[k].State = SessionStateInform)
          => IF sessions[k].PendingRPCs # <<>>
             THEN /\ resp'.status = StatusOK
                  /\ RpcsIn(resp'.body) = <<Head(sessions[k].PendingRPCs)>>
                  /\ sessions'[k].PendingRPCs = Tail(sessions[k].PendingRPCs)
             ELSE resp'.status = StatusNoContent]_vars

\* C4: SetParameterValues for a registered device that is offline returns no
\* error and puts the SetParameterValues RPC on a queue.
C4_OfflineSetQueued ==
  [][(/\ ret'.op = "SetParameterValues"
      /\ ret'.id \in DOMAIN devices
      /\ ~ devices[ret'.id].IsOnline)
     => (/\ ret'.err = "nil"
         /\ \E k \in CallerIds : enqueued'[k] = Append(enqueued[k], SetParameterValuesRpc))]_vars

\* C5: when a valid Inform has been answered, the device is in the registry
\* and in the store under a canonical id, with the Inform's parameters.
C5_InformRegisters ==
  (resp.req.method = "Inform" /\ resp.status = StatusOK)
  => \E k \in {AcsDeviceId(resp.req.dev), CmDeviceId(resp.req.dev)} :
       /\ k \in DOMAIN devices
       /\ k \in DOMAIN deviceStore
       /\ \A i \in 1..Len(InformParameterList) :
            LET p == InformParameterList[i]
            IN /\ p.Name \in DOMAIN devices[k].Parameters
               /\ devices[k].Parameters[p.Name] = p
               /\ p.Name \in DOMAIN deviceStore[k].Parameters
               /\ deviceStore[k].Parameters[p.Name] = p.Value

C8_ClosedAfter204 ==
  [][/\ \A d \in DeviceInfos :
          (/\ AnsweredEmptyPost(d)
           /\ resp'.status = StatusNoContent
           /\ AcsDeviceId(d) \in DOMAIN sessions)
          => sessions'[AcsDeviceId(d)].State = SessionStateClosed
     /\ \A k \in DOMAIN sessions :
          sessions[k].State = SessionStateClosed
          => sessions'[k].State = SessionStateClosed]_vars

\* The request is an Inform that does not decode: no envelope, or a body
\* routed to handleInform that is no Inform.
UnparsableInform(req) ==
  \/ req.body = "garbage"
  \/ req.body = "soap" /\ BodyContains(req, "Inform") /\ ~ Unmarshals(req, "Inform")

\* C9: a session is created in state new; the answer to a valid Inform leaves
\* the device's session in state Inform; handling an Inform that does not
\* parse creates no session and moves none into state Inform or Active.
C9_InformStates ==
  [][/\ \A k \in DOMAIN sessions' :
          k \notin DOMAIN sessions => sessions'[k].State = SessionStateNew
     /\ (resp'.req.method = "Inform" /\ resp'.status = StatusOK)
          => /\ AcsDeviceId(resp'.req.dev) \in DOMAIN sessions'
             /\ sessions'[AcsDeviceId(resp'.req.dev)].State = SessionStateInform
     /\ UnparsableInform(resp'.req)
          => \A k \in DOMAIN sessions' :
               /\ k \in DOMAIN sessions
               /\ sessions'[k].State \in {SessionStateInform, SessionStateActive}
                    => sessions'[k].State = sessions[k].State]_vars

\* C9 witness: one device's valid Inform has been handled, and an Inform of
\* another device that does not parse has been answered with a fault.
C9_Witness ==
  /\ \E k \in DOMAIN sessions : sessions[k].State = SessionStateInform
  /\ resp.req.method = "Inform"
  /\ ~ resp.req.ok
  /\ resp.status = StatusInternalServerError
  /\ AcsDeviceId(resp.req.dev) \notin DOMAIN sessions

\* C10: every envelope sent in answer to a request with a cwmp:ID header
\* carries that ID in its header.
C10_IdEchoed ==
  (resp.req.body = "soap" /\ resp.req.id # "")
  => \A i \in 1..Len(resp.body) :
       resp.body[i].text = "" => resp.body[i].env.Header.ID = resp.req.id

\* C11: a request whose envelope is larger than the envelope size limit is
\* answered with a SOAP fault of CWMP code 9004 and nothing else, and handling
\* it creates no session and changes none.
C11_OversizeFault9004 ==
  [][/\ resp'.req.big
          => /\ \E i \in 1..Len(resp'.body) :
                  resp'.body[i].env.Fault = FaultResourcesExceeded
             /\ \A i \in 1..Len(resp'.body) :
                  resp'.body[i].env.Content.method \in {"none", "Fault"}
     /\ \A w \in Workers :
          (handler'[w].req.big /\ handler'[w] # handler[w]) => sessions' = sessions]_vars

\* The operator-facing calls of CwmpManager that send an RPC.
CmOps == {"GetParameterValues", "SetParameterValues", "RebootCwmpDevice"}

\* C12: GetParameterValues, SetParameterValues and RebootCwmpDevice for an id
\* that is not in the registry return an error and leave the sessions with
\* their queues, the registry and the store as they were.
C12_UnknownDeviceFails ==
  [][(ret'.op \in CmOps /\ ret'.id \notin DOMAIN devices)
     => (/\ ret'.err # "nil"
         /\ sessions' = sessions
         /\ enqueued' = enqueued
         /\ devices' = devices
         /\ deviceStore' = deviceStore)]_vars

\* C12 witness: a call for an id that is not registered has failed, while the
\* very id keys a session with a queue and another device is registered.
C12_Witness ==
  /\ ret.op \in CmOps
  /\ ret.err = "device not found"
  /\ ret.id \in DOMAIN sessions
  /\ sessions[ret.id].PendingRPCs # <<>>
  /\ devices # EmptyMap

\* C13: a registered device is online exactly when its last Inform is at most
\* one liveness window old.
C13_OnlineIffFresh ==
  \A id \in DOMAIN devices :
    devices[id].IsOnline <=> (now - devices[id].LastInformTime <= timeout)

\* The device is online although its last Inform is older than the window.
StaleOnline(id) ==
  /\ id \in DOMAIN devices
  /\ devices[id].IsOnline
  /\ now - devices[id].LastInformTime > timeout

\* C14: a device whose last Inform has become older than the liveness window
\* while it is online is eventually marked offline (or heard from again).
C14_EventuallyOffline ==
  \A id \in CallerIds : StaleOnline(id) ~> ~ StaleOnline(id)

\* C15: a sweep keeps every device, changes no field but IsOnline, turns
\* IsOnline only from true to false and only for a device whose last Inform
\* is older than the window.
C15_SweepFrame ==
  [][ret'.op = "checkDeviceTimeouts"
     => (/\ DOMAIN devices' = DOMAIN devices
         /\ deviceStore' = deviceStore
         /\ \A id \in DOMAIN devices :
              /\ [devices'[id] EXCEPT !.IsOnline = devices[id].IsOnline] = devices[id]
              /\ devices'[id].IsOnline # devices[id].IsOnline
                   => /\ devices[id].IsOnline
                      /\ now - devices[id].LastInformTime > timeout)]_vars

\* C15 witness: after a sweep one device is offline with a last Inform older
\* than the window, and another, inside the window, is online.
C15_Witness ==
  /\ ret.op = "checkDeviceTimeouts"
  /\ \E id \in DOMAIN devices :
       ~ devices[id].IsOnline /\ now - devices[id].LastInformTime > timeout
  /\ \E id \in DOMAIN devices :
       devices[id].IsOnline /\ now - devices[id].LastInformTime <= timeout

\* C18: RegisterCwmpDevice for a device that is registered and stored, with
\* the parameter list it is registered with, succeeds and leaves the registry
\* and the store as they were (the store being reachable).
C18_RegisterIdempotent ==
  [][(/\ ret'.op = "RegisterCwmpDevice"
      /\ ret'.err # "store unavailable"
      /\ ret'.id \in DOMAIN devices
      /\ ret'.id \in DOMAIN deviceStore
      /\ PutAll(EmptyMap, ret'.arg) = devices[ret'.id].Parameters)
     => (/\ ret'.err = "nil"
         /\ devices' = devices
         /\ deviceStore' = deviceStore)]_vars

\* The key of the session of the device registered under id.
SessionKeyOf(id) ==
  AcsDeviceId([Manufacturer |-> devices[id].Manufacturer, OUI |-> devices[id].OUI,
               ProductClass |-> devices[id].ProductClass,
               SerialNumber |-> devices[id].SerialNumber])

\* C19: the registry's id of a device is the key of the device's session, and
\* a CwmpManager RPC call for a registered online device that has Informed
\* returns no error and appends the RPC to that session's queue.
C19_SameCanonicalId ==
  [][(/\ ret'.op \in CmOps
      /\ ret'.id \in DOMAIN devices
      /\ devices[ret'.id].IsOnline
      /\ SessionKeyOf(ret'.id) \in DOMAIN sessions
      /\ sessions[SessionKeyOf(ret'.id)].State = SessionStateInform)
     => (/\ ret'.id = SessionKeyOf(ret'.id)
         /\ ret'.err = "nil"
         /\ sessions'[SessionKeyOf(ret'.id)].PendingRPCs
              = Append(sessions[SessionKeyOf(ret'.id)].PendingRPCs, ret'.arg[1]))]_vars

\* C20: a step of the request handler (a new Inform, or a request that fails
\* to be read or parsed) keeps every session and leaves its queue of RPCs as
\* it was.
C20_QueueSurvives ==
  [][(handler' # handler \/ resp'.req # NoReq)
     => \A k \in DOMAIN sessions :
          /\ k \in DOMAIN sessions'
          /\ sessions'[k].PendingRPCs = sessions[k].PendingRPCs]_vars

\* C20 witness: an Inform has been answered for a session that was created
\* at an earlier time and holds two queued RPCs.
C20_Witness ==
  /\ resp.req.method = "Inform"
  /\ resp.status = StatusOK
  /\ AcsDeviceId(resp.req.dev) \in DOMAIN sessions
  /\ sessions[AcsDeviceId(resp.req.dev)].CreatedTime
       < sessions[AcsDeviceId(resp.req.dev)].LastActivity
  /\ Len(sessions[AcsDeviceId(resp.req.dev)].PendingRPCs) = 2

\* The calls that write parameters to the store.
ParamOps == {"UpdateDeviceParameters", "UpsertCwmpParameters"}

\* C16: the parameter store holds at most one document for each pair of
\* device id and path.
C16_OneRecordPerPath ==
  \A i, j \in 1..Len(paramStore) :
    (paramStore[i].DeviceID = paramStore[j].DeviceID /\ paramStore[i].Path = paramStore[j].Path)
    => i = j

\* C16 witness: an upsert that raced with another writer of the same path
\* has been refused by the store, which holds the one document of the winner
\* while the other writer is still in its call.
C16_Witness ==
  /\ ret.op \in ParamOps
  /\ ret.err = "duplicate key"
  /\ Len(paramStore) = 1
  /\ \E u \in Writers : paramWriter[u].pc # "idle"

\* C17: a parameter write call that returns an error has written none of its
\* parameters to the store.
C17_AllOrNothing ==
  [][(ret'.op \in ParamOps /\ ret'.err # "nil") => ret'.arg[1] = 0]_vars

\* The operator-facing calls of AcsServer that queue an RPC.
AcsOps == {"acs.GetParameterValues", "acs.SetParameterValues", "acs.RebootDevice"}

\* C24: SendRPC returns an error exactly when no session is stored under the
\* device id, and then leaves the session table as it was; otherwise the
\* only change is the RPC appended to the tail of that session's queue.
C24_SendRPCFrame ==
  [][ret'.op \in AcsOps
     => (/\ (ret'.err # "nil") <=> (ret'.id \notin DOMAIN sessions)
         /\ ret'.err # "nil" => sessions' = sessions
         /\ ret'.err = "nil"
              => sessions' = [sessions EXCEPT
                                ![ret'.id].PendingRPCs = Append(@, ret'.arg[1])])]_vars

\* C24 witness: a second RPC has been queued for a device while another
\* device has a session too.
C24_Witness ==
  /\ ret.op \in AcsOps
  /\ ret.err = "nil"
  /\ Len(sessions[ret.id].PendingRPCs) = 2
  /\ Cardinality(DOMAIN sessions) = 2

\* C25: a GetParameterValuesResponse or SetParameterValuesResponse that
\* decodes is answered by its response handler (200, NoMoreRequests), never
\* routed to handleInform, and only an Inform creates a session or sets a
\* session's state to Inform.
C25_ResponsesRouted ==
  [][/\ (resp'.req.method \in {"GetParameterValuesResponse", "SetParameterValuesResponse"}
          /\ resp'.req.ok)
          => /\ resp'.status = StatusOK
             /\ \E i \in 1..Len(resp'.body) : resp'.body[i].env.Header.NoMoreRequests
     /\ \A w \in Workers :
          handler'[w].pc = "inform" => handler'[w].req.method = "Inform"
     /\ \A k \in DOMAIN sessions' :
          (\/ k \notin DOMAIN sessions
           \/ (sessions'[k].State = SessionStateInform /\ sessions[k].State # SessionStateInform))
          => \E w \in Workers :
               (handler[w].req.method = "Inform" \/ handler'[w].req.method = "Inform")]_vars

\* C26: a body that is no SOAP envelope is answered with a fault of CWMP code
\* 9003, and handling it leaves the session table as it was.
C26_GarbageFault9003 ==
  [][resp'.req.body = "garbage"
     => (/\ \E i \in 1..Len(resp'.body) : resp'.body[i].env.Fault = FaultInvalidArguments
         /\ \A i \in 1..Len(resp'.body) :
              resp'.body[i].env.Content.method \in {"none", "Fault"}
         /\ sessions' = sessions)]_vars

\* C26 witness: a body that is no envelope has been answered with fault 9003
\* while the sender has a session with a queued RPC.
C26_Witness ==
  /\ resp.req.body = "garbage"
  /\ resp.status = StatusInternalServerError
  /\ \E i \in 1..Len(resp.body) : resp.body[i].env.Fault = FaultInvalidArguments
  /\ AcsDeviceId(resp.req.dev) \in DOMAIN sessions
  /\ sessions[AcsDeviceId(resp.req.dev)].PendingRPCs # <<>>

\* C27: a RegisterCwmpDevice that returns an error leaves the registry as it
\* was.
C27_FailedRegisterNoEntry ==
  [][(ret'.op = "RegisterCwmpDevice" /\ ret'.err # "nil") => devices' = devices]_vars

\* C29: two sessions of the session table never have the same SessionId.
C29_SessionIdUnique ==
  \A k1, k2 \in DOMAIN sessions :
    sessions[k1].SessionId = sessions[k2].SessionId => k1 = k2

\* C21: the queue of every session holds the RPCs of all SendRPC calls that
\* returned without error, each once (in the order the calls appended them).
C21_NoLostRpc == \A k \in CallerIds : Pending(k) = enqueued[k]

\* C21 witness: a SendRPC has returned and the queue holds the RPCs of both
\* callers, while a further SendRPC for the same device is past its lookup.
C21_Witness ==
  /\ ret.op = "SendRPC"
  /\ ret.err = "nil"
  /\ Len(Pending(ret.id)) = 2
  /\ \A c \in Callers : \E i \in 1..2 : Pending(ret.id)[i] = RpcOf(c)
  /\ \E c \in Callers : rpcCaller[c].pc = "lock" /\ rpcCaller[c].deviceId = ret.id

\* The session fields a goroutine is about to read or write, with the
\* locks it holds: handleInform writes State and LastActivity holding none,
\* SendRPC writes PendingRPCs holding the session's mutex.
Accesses(g) ==
  IF g \in Workers
  THEN IF handler[g].pc = "inform"
       THEN {[obj |-> handler[g].deviceId, field |-> f, write |-> TRUE, locks |-> {}] :
               f \in {"State", "LastActivity"}}
       ELSE {}
  ELSE IF rpcCaller[g].pc = "locked"
       THEN {[obj |-> rpcCaller[g].deviceId, field |-> "PendingRPCs", write |-> TRUE,
              locks |-> {<<"session.mutex", rpcCaller[g].deviceId>>}]}
       ELSE {}

\* C22: no two goroutines access the same field of the same session, one of
\* them writing, without a lock they both hold.
C22_NoDataRace ==
  \A g1, g2 \in Workers \cup Callers :
    g1 # g2 =>
      \A a1 \in Accesses(g1), a2 \in Accesses(g2) :
        (a1.obj = a2.obj /\ a1.field = a2.field /\ (a1.write \/ a2.write))
        => a1.locks \cap a2.locks # {}

\* C23: a session, once in the table, stays the session of its device id:
\* no step replaces it or drops RPCs from its queue.
C23_OneSessionPerDevice ==
  [][\A k \in DOMAIN sessions :
       /\ k \in DOMAIN sessions'
       /\ sessions'[k].SessionId = sessions[k].SessionId
       /\ sessions'[k].CreatedTime = sessions[k].CreatedTime
       /\ Len(sessions'[k].PendingRPCs) >= Len(sessions[k].PendingRPCs)
       /\ SubSeq(sessions'[k].PendingRPCs, 1, Len(sessions[k].PendingRPCs))
            = sessions[k].PendingRPCs]_vars

\* C23 witness: both handlers are in handleInform for the same device,
\* holding the one session, which has an RPC queued.
C23_Witness ==
  /\ handler["w1"].pc = "inform"
  /\ handler["w2"].pc = "inform"
  /\ handler["w1"].deviceId = handler["w2"].deviceId
  /\ Pending(handler["w1"].deviceId) # <<>>


\* C30: every device in a response to GET /cwmp/devices/ with online_only=true
\* is reported with is_online = true.
C30_OnlineOnlyAllOnline ==
  (ret.op = "getCwmpDevices" /\ ret.err = "nil" /\ ret.arg.onlineOnly)
    => \A d \in ret.arg.devices : d.IsOnline

\* The (Manufacturer, OUI, ProductClass, SerialNumber) tuple of a record.
IdentityOf(r) == <<r.Manufacturer, r.OUI, r.ProductClass, r.SerialNumber>>

\* C28: devices whose identity tuples differ never share a session (two
\* Informs being handled with one session key are of one device) nor a
\* registry entry (a registration never lands on the entry of another tuple).
C28_DistinctDevicesDistinctIds ==
  [][/\ \A w \in Workers, v \in Workers :
          (/\ handler'[w].pc = "inform"
           /\ handler'[v].pc = "inform"
           /\ handler'[w].deviceId = handler'[v].deviceId)
            => IdentityOf(handler'[w].req.dev) = IdentityOf(handler'[v].req.dev)
     /\ (ret'.op = "RegisterCwmpDevice" /\ ret'.id \in DOMAIN devices)
          => IdentityOf(devices[ret'.id]) = IdentityOf(devices'[ret'.id])]_vars

====
